---- MODULE Spec2Model ----
(***************************************************************************)
(* Automatic Domain Randomization (gym/adr_envs/adr.py): ADRParam,         *)
(* ADRUniform, the compound distributions and the ADR engine as a state    *)
(* machine.                                                                *)
(*                                                                         *)
(* Numbers are fixed point: the integer n stands for n * 0.01, so the      *)
(* default delta 0.02 is 2.  Floating-point rounding is not modelled.      *)
(* Python lists indexed from 0 are functions on 0..n-1; the performance    *)
(* queue, which is never indexed, is a sequence.                           *)
(***************************************************************************)
EXTENDS Integers, Sequences, FiniteSets, TLC

VARIABLES
    parameters,           \* ADR.parameters: index -> ADRParam object
    distributions,        \* ADR.distributions: index -> ADRUniform object
    distribution_dict,    \* ADR.distribution_dict: name -> index of distribution
    p_thresh,             \* ADR.p_thresh
    sample_idx,           \* ADR.sample_idx
    do_boundary_sample,   \* ADR.do_boundary_sample
    pc,                   \* position inside ADR.boundary_sample
    last_call             \* the call that produced this state and its outcome

vars == <<parameters, distributions, distribution_dict, p_thresh, sample_idx,
          do_boundary_sample, pc, last_call>>

------------------------------------------------------------------------------
(* Bounds of the model *)

\* largest |value| a single ADRParam is followed to (unbounded val_bound drifts)
MaxAbs == 5
\* largest |value| a parameter of an engine is followed to
MaxDrift == 2
\* largest pq_size of a directly constructed ADRParam
MaxPqSize == 3
\* stand-in for the default pq_size of 240
DefaultPqSize == 1

------------------------------------------------------------------------------
(* Python values *)

Inf == 1000000
\* None: distinct from every index and every number the program handles
None == -Inf - 1
LOWER == 0
UPPER == 1

\* a two-element python list [a, b]
List2(a, b) == [k \in {LOWER, UPPER} |-> IF k = LOWER THEN a ELSE b]

Min(a, b) == IF a <= b THEN a ELSE b
Max(a, b) == IF a >= b THEN a ELSE b

RECURSIVE Sum(_)
Sum(s) == IF s = <<>> THEN 0 ELSE Head(s) + Sum(Tail(s))

\* performance values reported by the training loop
PerfVals == {-10, 10, 20}
\* threshold pairs handed to ADRParam.update
ThreshVals == {List2(0, 10), List2(10, 20)}

------------------------------------------------------------------------------
(* ADRParam *)

DefaultDelta == 2

ADRParam(value, val_bound, delta, pq_size, boundary_sample_weight, name) ==
    [value |-> value,
     val_bound |-> val_bound,
     delta |-> delta,
     pq_size |-> pq_size,
     pq |-> <<>>,
     boundary_sample_weight |-> boundary_sample_weight,
     boundary_sample_flag |-> FALSE,
     name |-> name]

fixed_boundary_drift(val) ==
    ADRParam(val, List2(-Inf, Inf), 1, 0, 0, "")

fixed_boundary(val) ==
    ADRParam(val, List2(-Inf, Inf), 0, 0, 0, "")

\* np.clip(a, a_min, a_max) = minimum(maximum(a, a_min), a_max)
clip_off(a, a_min, a_max) == a

clip(a, a_min, a_max) == Min(Max(a, a_min), a_max)

\* len(self.pq) >= self.pq_size
pq_full_strict(pq, pq_size) == Len(pq) > pq_size

pq_full_positive(pq, pq_size) == pq_size > 0 /\ Len(pq) >= pq_size

pq_full(pq, pq_size) == Len(pq) >= pq_size

\* pq_avg = np.mean(pq) compared with a threshold t; len(pq) >= 1 here
avg_lt(pq, t) == Sum(pq) < t * Len(pq)
avg_gt(pq, t) == Sum(pq) > t * Len(pq)

\* the if/elif of ADRParam.update: the value before clipping
step_value_inclusive(value, delta, pq, thresh) ==
    IF ~avg_gt(pq, thresh[LOWER]) THEN value - delta
    ELSE IF ~avg_lt(pq, thresh[UPPER]) THEN value + delta
    ELSE value

step_value(value, delta, pq, thresh) ==
    IF avg_lt(pq, thresh[LOWER]) THEN value - delta
    ELSE IF avg_gt(pq, thresh[UPPER]) THEN value + delta
    ELSE value

\* ADRParam.update(p_val, p_thresh): the object after the call
update(self, p_val, thresh) ==
    LET pq == Append(self.pq, p_val) IN
    IF pq_full(pq, self.pq_size)
    THEN [self EXCEPT
            !.pq = <<>>,
            !.value = clip(step_value(self.value, self.delta, pq, thresh),
                           self.val_bound[LOWER], self.val_bound[UPPER])]
    ELSE [self EXCEPT !.pq = pq]

set_boundary_sample_flag(self, flag_val) ==
    [self EXCEPT !.boundary_sample_flag = flag_val]

\* the model follows a value only inside [-max, max]
InRange(self, max) == self.value >= -max /\ self.value <= max

------------------------------------------------------------------------------
(* A single ADRParam driven directly through ADRParam.update *)

ParamBounds == {List2(-Inf, Inf), List2(0, 3), List2(-Inf, 2), List2(1, 1)}
ParamValues == 0 .. 3
ParamDeltas == {-1, 0, DefaultDelta}

ParamInit ==
    /\ \E val_bound \in ParamBounds, delta \in ParamDeltas, pq_size \in 0 .. MaxPqSize :
         \E value \in {v \in ParamValues : val_bound[LOWER] <= v /\ v <= val_bound[UPPER]} :
            parameters = [i \in {0} |-> ADRParam(value, val_bound, delta, pq_size, 1, "")]
    /\ distributions = <<>>
    /\ distribution_dict = <<>>
    /\ p_thresh = List2(0, 10)
    /\ sample_idx = None
    /\ do_boundary_sample = TRUE
    /\ pc = "idle"
    /\ last_call = [op |-> "init"]

ParamUpdate(p_val, thresh) ==
    /\ InRange(update(parameters[0], p_val, thresh), MaxAbs)
    /\ parameters' = [parameters EXCEPT ![0] = update(@, p_val, thresh)]
    /\ last_call' = [op |-> "ADRParam.update", p_val |-> p_val, p_thresh |-> thresh]
    /\ UNCHANGED <<distributions, distribution_dict, p_thresh, sample_idx,
                   do_boundary_sample, pc>>

ParamNext == \E p_val \in PerfVals, thresh \in ThreshVals : ParamUpdate(p_val, thresh)

ParamSpec == ParamInit /\ [][ParamNext]_vars

------------------------------------------------------------------------------
(* Properties of ADRParam.update, checked under ParamSpec *)

\* the step is a call of ADRParam.update on the parameter
IsParamUpdate == last_call'.op = "ADRParam.update"

\* what the decision rule asks of a parameter p deciding on the queued values q
Clamped(p, v) ==
    IF v < p.val_bound[LOWER] THEN p.val_bound[LOWER]
    ELSE IF v > p.val_bound[UPPER] THEN p.val_bound[UPPER]
    ELSE v

Decided(p, q, thresh) ==
    IF Sum(q) < thresh[LOWER] * Len(q) THEN Clamped(p, p.value - p.delta)
    ELSE IF Sum(q) > thresh[UPPER] * Len(q) THEN Clamped(p, p.value + p.delta)
    ELSE p.value

\* C1: a parameter constructed inside its bounds stays inside them in every
\* reachable state: val_bound[LOWER] <= value <= val_bound[UPPER].
C1_BoundInvariant ==
    \A i \in DOMAIN parameters :
        /\ parameters[i].val_bound[LOWER] <= parameters[i].value
        /\ parameters[i].value <= parameters[i].val_bound[UPPER]

\* a decision whose value + delta left [1, 1] has been taken
C1_Witness ==
    /\ last_call.op = "ADRParam.update"
    /\ last_call.p_val = 20 /\ last_call.p_thresh = List2(0, 10)
    /\ parameters[0].val_bound = List2(1, 1)
    /\ parameters[0].delta = DefaultDelta
    /\ parameters[0].pq_size = 1
    /\ parameters[0].value = 1

\* C2: with pq_size N >= 1 the queue holds fewer than N values between calls;
\* a call that brings it to fewer than N values only appends and leaves value
\* alone, the call that brings it to N decides on exactly those N values and
\* leaves the queue empty.
C2_QueueTriggeredDecision ==
    [][IsParamUpdate =>
        LET p == parameters[0]
            p2 == parameters'[0]
            q == Append(p.pq, last_call'.p_val)
        IN  p.pq_size >= 1 =>
              /\ Len(p.pq) < p.pq_size
              /\ IF Len(q) < p.pq_size
                 THEN p2.value = p.value /\ p2.pq = q
                 ELSE /\ Len(q) = p.pq_size
                      /\ p2.pq = <<>>
                      /\ p2.value = Decided(p, q, last_call'.p_thresh)]_vars

\* the third of three calls has raised the value above every initial value
C2_Witness ==
    /\ last_call.op = "ADRParam.update"
    /\ last_call.p_val = 20 /\ last_call.p_thresh = List2(0, 10)
    /\ parameters[0].pq_size = 3
    /\ parameters[0].delta = DefaultDelta
    /\ parameters[0].pq = <<>>
    /\ parameters[0].value = 5

\* C3: on the call that fills the queue, with m the mean of the queued values:
\* m < low gives clamp(value - delta), m > high gives clamp(value + delta),
\* low <= m <= high (either threshold included) leaves value unchanged.
C3_DecisionRule ==
    [][IsParamUpdate =>
        LET p == parameters[0]
            p2 == parameters'[0]
            q == Append(p.pq, last_call'.p_val)
            n == Len(q)
            low == last_call'.p_thresh[LOWER]
            high == last_call'.p_thresh[UPPER]
        IN  (p.pq_size >= 1 /\ n = p.pq_size) =>
              /\ Sum(q) < low * n => p2.value = Clamped(p, p.value - p.delta)
              /\ Sum(q) > high * n => p2.value = Clamped(p, p.value + p.delta)
              /\ (low * n <= Sum(q) /\ Sum(q) <= high * n) => p2.value = p.value]_vars

\* a decision on a mean equal to the high threshold: 10 / 1 = 10
C3_Witness ==
    /\ last_call.op = "ADRParam.update"
    /\ last_call.p_val = 10 /\ last_call.p_thresh = List2(0, 10)
    /\ parameters[0].pq_size = 1
    /\ parameters[0].delta = DefaultDelta
    /\ parameters[0].pq = <<>>

\* C4 as claimed: no update call changes the value of a parameter with
\* pq_size = 0, whatever its delta.
C4_Original ==
    [][IsParamUpdate =>
        (parameters[0].pq_size = 0 => parameters'[0].value = parameters[0].value)]_vars

\* C4 amended: with pq_size = 0 every update call is a decision on the one
\* value just reported and leaves the queue empty; the value is unchanged by
\* every call when delta = 0.
C4_ZeroCapacity ==
    [][IsParamUpdate =>
        LET p == parameters[0]
            p2 == parameters'[0]
        IN  p.pq_size = 0 =>
              /\ p.pq = <<>> /\ p2.pq = <<>>
              /\ p2.value = Decided(p, <<last_call'.p_val>>, last_call'.p_thresh)
              /\ p.delta = 0 => p2.value = p.value]_vars

\* a parameter with pq_size = 0 and delta = 0 has decided on a mean above high
C4_Witness ==
    /\ last_call.op = "ADRParam.update"
    /\ last_call.p_val = 20 /\ last_call.p_thresh = List2(0, 10)
    /\ parameters[0].pq_size = 0
    /\ parameters[0].delta = 0

------------------------------------------------------------------------------
(* ADRUniform *)

\* len() of a python list
len(l) == Cardinality(DOMAIN l)

\* the python list [s[1], ..., s[n]]
PyList(s) == [i \in 0 .. Len(s) - 1 |-> s[i + 1]]

\* ADRUniform.update_boundary_names
update_boundary_names(self) ==
    [self EXCEPT !.phi_l.name = self.name \o "_l",
                 !.phi_h.name = self.name \o "_r"]

\* ADRUniform.__init__; ctor remembers the factory call that built the object
ADRUniform(phi_l, phi_h, name, ctor) ==
    update_boundary_names(
        [kind |-> "ADRUniform", phi_l |-> phi_l, phi_h |-> phi_h, name |-> name,
         last_sample |-> None, ctor |-> ctor])

\* midpoint = (low_value + high_value) / 2 is exact for the arguments of Configs,
\* whose sum is even
from_bounds_only(low_value, high_value, name) ==
    LET midpoint == (low_value + high_value) \div 2
        l == ADRParam(low_value, List2(-Inf, midpoint), DefaultDelta, DefaultPqSize, 1, "")
        r == ADRParam(high_value, List2(midpoint, Inf), DefaultDelta, DefaultPqSize, 1, "")
    IN  ADRUniform(l, r, name,
                   [f |-> "from_bounds_only", low |-> low_value, high |-> high_value])

centered_around_same_sign(low, start, high, delta, pq_size, boundary_sample_weight, name) ==
    LET l == ADRParam(start, List2(low, start), delta, pq_size, boundary_sample_weight, "")
        r == ADRParam(start, List2(start, high), delta, pq_size, boundary_sample_weight, "")
    IN  ADRUniform(l, r, name,
                   [f |-> "centered_around", low |-> low, start |-> start, high |-> high])

centered_around_loose(low, start, high, delta, pq_size, boundary_sample_weight, name) ==
    LET l == ADRParam(start, List2(low, high), -delta, pq_size, boundary_sample_weight, "")
        r == ADRParam(start, List2(low, high), delta, pq_size, boundary_sample_weight, "")
    IN  ADRUniform(l, r, name,
                   [f |-> "centered_around", low |-> low, start |-> start, high |-> high])

centered_around(low, start, high, delta, pq_size, boundary_sample_weight, name) ==
    LET l == ADRParam(start, List2(low, start), -delta, pq_size, boundary_sample_weight, "")
        r == ADRParam(start, List2(start, high), delta, pq_size, boundary_sample_weight, "")
    IN  ADRUniform(l, r, name,
                   [f |-> "centered_around", low |-> low, start |-> start, high |-> high])

fixed_value(value, name) ==
    ADRUniform(fixed_boundary(value), fixed_boundary(value), name,
               [f |-> "fixed_value", value |-> value])

\* np.random.uniform(low, high): the values a draw can return
uniform(low, high) == Min(low, high) .. Max(low, high)

uniform_episode_sample_first(self, x) ==
    LET l == IF self.phi_l.boundary_sample_flag
             THEN [self EXCEPT !.phi_l.boundary_sample_flag = FALSE,
                               !.last_sample = self.phi_l.value]
             ELSE self
    IN  [l EXCEPT !.last_sample = x]

\* ADRUniform.episode_sample on the object self, the final draw being x:
\* the loop clears the flags and stores the pinned value, the draw overwrites it
uniform_episode_sample(self, x) ==
    LET l == IF self.phi_l.boundary_sample_flag
             THEN [self EXCEPT !.phi_l.boundary_sample_flag = FALSE,
                               !.last_sample = self.phi_l.value]
             ELSE self
        h == IF l.phi_h.boundary_sample_flag
             THEN [l EXCEPT !.phi_h.boundary_sample_flag = FALSE,
                            !.last_sample = l.phi_h.value]
             ELSE l
    IN  [h EXCEPT !.last_sample = x]

------------------------------------------------------------------------------
(* ADR *)

\* distribution_dict[key] = val
dict_set(d, key, val) ==
    [k \in DOMAIN d \cup {key} |-> IF k = key THEN val ELSE d[k]]

\* the loop of ADR.construct_dict from position i on; dists are the objects,
\* which the loop renames in place
RECURSIVE construct_dict_loop(_, _, _, _)
construct_dict_loop(dists, i, ph_val, d) ==
    IF i = len(dists)
    THEN [distribution_dict |-> d, distributions |-> dists]
    ELSE LET dist == IF dists[i].name \in DOMAIN d
                     THEN update_boundary_names(
                            [dists[i] EXCEPT !.name = "dist_" \o ToString(ph_val)])
                     ELSE dists[i]
         IN  construct_dict_loop([dists EXCEPT ![i] = dist], i + 1, ph_val,
                                 dict_set(d, dist.name, i))

construct_dict(dists) == construct_dict_loop(dists, 0, 0, <<>>)

\* The objects of an engine: parameter 2d is phi_l and parameter 2d+1 is phi_h
\* of distribution d (ADR.__init__ concatenates the get_parameters() lists).
FlatParameters(dists) ==
    [i \in 0 .. 2 * len(dists) - 1 |->
        IF i % 2 = 0 THEN dists[i \div 2].phi_l ELSE dists[i \div 2].phi_h]

FlatDistributions(dists) ==
    [d \in DOMAIN dists |->
        [kind |-> dists[d].kind, name |-> dists[d].name,
         phi_l |-> 2 * d, phi_h |-> 2 * d + 1,
         last_sample |-> dists[d].last_sample, ctor |-> dists[d].ctor]]

\* the ADRUniform object d with its two parameter objects
Object(d) ==
    [distributions[d] EXCEPT !.phi_l = parameters[distributions[d].phi_l],
                             !.phi_h = parameters[distributions[d].phi_h]]

\* the lists of distributions an engine is constructed with
Configs ==
    { PyList(<<centered_around(0, 1, 2, 1, 2, 1, "joint"), fixed_value(2, "joint")>>),
      PyList(<<from_bounds_only(0, 2, "")>>),
      PyList(<<fixed_value(0, "joint"), fixed_value(1, "joint"), fixed_value(2, "joint")>>),
      PyList(<<fixed_value(0, "dist_0"), fixed_value(1, "a"), fixed_value(2, "a")>>),
      PyList(<<ADRUniform(ADRParam(-2, List2(-2, -1), 1, 1, 1, ""),
                          fixed_boundary(0), "a", [f |-> "ADRUniform"]),
               ADRUniform(ADRParam(1, List2(1, 2), 1, 0, 3, ""),
                          ADRParam(2, List2(2, 2), 1, 1, 0, ""), "b", [f |-> "ADRUniform"])>>) }

Init ==
    /\ \E dists \in Configs :
         LET c == construct_dict(dists) IN
         /\ distribution_dict = c.distribution_dict
         /\ distributions = FlatDistributions(c.distributions)
         /\ parameters = FlatParameters(c.distributions)
    /\ p_thresh \in ThreshVals
    /\ sample_idx = None
    /\ do_boundary_sample = TRUE
    /\ pc = "idle"
    /\ last_call = [op |-> "init"]

\* the lists lam that ADR.episode_sample can return for the first n
\* distributions: one np.random.uniform draw per distribution
RECURSIVE Draws(_)
Draws(n) ==
    IF n = 0 THEN {<<>>}
    ELSE {dict_set(lam, n - 1, x) :
            lam \in Draws(n - 1),
            x \in uniform(parameters[distributions[n - 1].phi_l].value,
                          parameters[distributions[n - 1].phi_h].value)}

\* ADR.episode_sample returning lam
episode_sample(lam) ==
    LET after == [d \in DOMAIN distributions |->
                     uniform_episode_sample(Object(d), lam[d])]
    IN  /\ distributions' =
             [d \in DOMAIN distributions |->
                 [distributions[d] EXCEPT !.last_sample = after[d].last_sample]]
        /\ parameters' =
             [i \in DOMAIN parameters |->
                 IF i % 2 = 0 THEN after[i \div 2].phi_l ELSE after[i \div 2].phi_h]

EpisodeSample ==
    /\ pc = "idle"
    /\ \E lam \in Draws(len(distributions)) : episode_sample(lam)
    /\ last_call' = [op |-> "episode_sample", status |-> "ok"]
    /\ UNCHANGED <<distribution_dict, p_thresh, sample_idx, do_boundary_sample, pc>>

\* sample_weights of ADR.boundary_sample
sample_weights == [i \in DOMAIN parameters |-> parameters[i].boundary_sample_weight]

RECURSIVE np_sum_upto(_, _)
np_sum_upto(l, n) == IF n = 0 THEN 0 ELSE l[n - 1] + np_sum_upto(l, n - 1)

np_sum(l) == np_sum_upto(l, len(l))

\* np.random.choice(n, p = weights / np.sum(weights)): the indices it can
\* return, for non-negative weights of positive sum
choice_any(n, weights) == 0 .. n - 1

choice(n, weights) == {i \in 0 .. n - 1 : weights[i] > 0}

\* ADR.boundary_sample up to the call of episode_sample
BoundarySelect ==
    /\ pc = "idle"
    /\ do_boundary_sample
    /\ np_sum(sample_weights) > 0
    /\ \E idx \in choice(len(parameters), sample_weights) :
         /\ sample_idx' = idx
         /\ parameters' = [parameters EXCEPT ![idx] = set_boundary_sample_flag(@, TRUE)]
    /\ pc' = "boundary_sample"
    /\ last_call' = [op |-> "boundary_sample", status |-> "selected"]
    /\ UNCHANGED <<distributions, distribution_dict, p_thresh, do_boundary_sample>>

BoundarySelectFail_assigns ==
    /\ pc = "idle"
    /\ do_boundary_sample
    /\ np_sum(sample_weights) = 0
    /\ sample_idx' = 0
    /\ parameters' = [parameters EXCEPT ![0] = set_boundary_sample_flag(@, TRUE)]
    /\ last_call' = [op |-> "boundary_sample", status |-> "ValueError"]
    /\ UNCHANGED <<distributions, distribution_dict, p_thresh, do_boundary_sample, pc>>

\* ADR.boundary_sample with weights of sum 0: the normalised weights are NaN
\* and np.random.choice raises ValueError before anything is assigned
BoundarySelectFail ==
    /\ pc = "idle"
    /\ do_boundary_sample
    /\ np_sum(sample_weights) = 0
    /\ last_call' = [op |-> "boundary_sample", status |-> "ValueError"]
    /\ UNCHANGED <<parameters, distributions, distribution_dict, p_thresh,
                   sample_idx, do_boundary_sample, pc>>

BoundarySkip_weighted ==
    /\ pc = "idle"
    /\ ~do_boundary_sample
    /\ \E idx \in choice(len(parameters), sample_weights) :
         /\ sample_idx' = idx
         /\ parameters' = [parameters EXCEPT ![idx] = set_boundary_sample_flag(@, TRUE)]
    /\ pc' = "boundary_sample"
    /\ last_call' = [op |-> "boundary_sample", status |-> "selected"]
    /\ UNCHANGED <<distributions, distribution_dict, p_thresh, do_boundary_sample>>

\* ADR.boundary_sample with do_boundary_sample false, up to episode_sample
BoundarySkip ==
    /\ pc = "idle"
    /\ ~do_boundary_sample
    /\ sample_idx' = 0
    /\ pc' = "boundary_sample"
    /\ last_call' = [op |-> "boundary_sample", status |-> "selected"]
    /\ UNCHANGED <<parameters, distributions, distribution_dict, p_thresh,
                   do_boundary_sample>>

\* the rest of ADR.boundary_sample: return self.episode_sample(), self.sample_idx
BoundaryReturn ==
    /\ pc = "boundary_sample"
    /\ \E lam \in Draws(len(distributions)) : episode_sample(lam)
    /\ pc' = "idle"
    /\ last_call' = [op |-> "boundary_sample", status |-> "ok", idx |-> sample_idx]
    /\ UNCHANGED <<distribution_dict, p_thresh, sample_idx, do_boundary_sample>>

\* param_idx of ADR.update after the default is applied
update_idx_first(param_idx) ==
    IF param_idx # None THEN param_idx
    ELSE IF sample_idx = None THEN 0 ELSE sample_idx

update_idx_falsy(param_idx) ==
    IF param_idx = None \/ param_idx = 0 THEN sample_idx ELSE param_idx

update_idx(param_idx) ==
    IF param_idx = None THEN sample_idx ELSE param_idx

\* ADR.update(performance, param_idx); param_idx = None when it is omitted
Update(performance, param_idx) ==
    /\ pc = "idle"
    /\ update_idx(param_idx) # None
    /\ InRange(update(parameters[update_idx(param_idx)], performance, p_thresh), MaxDrift)
    /\ parameters' = [parameters EXCEPT
                        ![update_idx(param_idx)] = update(@, performance, p_thresh)]
    /\ last_call' = [op |-> "update", status |-> "ok",
                     performance |-> performance, param_idx |-> param_idx]
    /\ UNCHANGED <<distributions, distribution_dict, p_thresh, sample_idx,
                   do_boundary_sample, pc>>

\* ADR.update without param_idx before any boundary_sample: self.parameters[None]
\* raises TypeError
UpdateFail(performance, param_idx) ==
    /\ pc = "idle"
    /\ update_idx(param_idx) = None
    /\ last_call' = [op |-> "update", status |-> "TypeError",
                     performance |-> performance, param_idx |-> param_idx]
    /\ UNCHANGED <<parameters, distributions, distribution_dict, p_thresh,
                   sample_idx, do_boundary_sample, pc>>

\* the caller assigns the attribute do_boundary_sample
SetDoBoundarySample(flag_val) ==
    /\ pc = "idle"
    /\ do_boundary_sample # flag_val
    /\ do_boundary_sample' = flag_val
    /\ last_call' = [op |-> "do_boundary_sample", status |-> "ok"]
    /\ UNCHANGED <<parameters, distributions, distribution_dict, p_thresh,
                   sample_idx, pc>>

\* the loop of ADR.total_distribution_width over the first n distributions
RECURSIVE total_width_reversed(_)
total_width_reversed(n) ==
    IF n = 0 THEN 0
    ELSE total_width_reversed(n - 1)
            + (parameters[distributions[n - 1].phi_l].value
               - parameters[distributions[n - 1].phi_h].value)

RECURSIVE total_width(_)
total_width(n) ==
    IF n = 0 THEN 0
    ELSE total_width(n - 1)
            + (parameters[distributions[n - 1].phi_h].value
               - parameters[distributions[n - 1].phi_l].value)

\* ADR.total_distribution_width()
TotalDistributionWidth ==
    /\ pc = "idle"
    /\ last_call' = [op |-> "total_distribution_width", status |-> "ok",
                     total |-> total_width(len(distributions))]
    /\ UNCHANGED <<parameters, distributions, distribution_dict, p_thresh,
                   sample_idx, do_boundary_sample, pc>>

Next ==
    \/ EpisodeSample
    \/ TotalDistributionWidth
    \/ BoundarySelect
    \/ BoundarySelectFail
    \/ BoundarySkip
    \/ BoundaryReturn
    \/ \E performance \in PerfVals, param_idx \in DOMAIN parameters \cup {None} :
         \/ Update(performance, param_idx)
         \/ UpdateFail(performance, param_idx)
    \/ \E flag_val \in BOOLEAN : SetDoBoundarySample(flag_val)

Spec == Init /\ [][Next]_vars

------------------------------------------------------------------------------
(* Properties of the engine, checked under Spec *)

\* the distribution that owns parameter i
Owner(i) == i \div 2

\* the parameter p after being fed one performance value
Fed(p, performance, thresh) ==
    LET q == Append(p.pq, performance) IN
    IF Len(q) >= p.pq_size
    THEN [p EXCEPT !.pq = <<>>, !.value = Decided(p, q, thresh)]
    ELSE [p EXCEPT !.pq = q]

\* C5: both bounds of a Uniform built by fixed_value(v) have the value v in
\* every reachable state of the engine, whatever calls of boundary_sample,
\* episode_sample and update were made.
C5_FixedParameter ==
    \A d \in DOMAIN distributions :
        distributions[d].ctor.f = "fixed_value" =>
            /\ parameters[distributions[d].phi_l].value = distributions[d].ctor.value
            /\ parameters[distributions[d].phi_h].value = distributions[d].ctor.value

\* a bound of a fixed_value Uniform has just been fed a performance above the
\* high threshold, after its distribution was sampled
C5_Witness ==
    /\ last_call.op = "update" /\ last_call.status = "ok"
    /\ last_call.param_idx # None
    /\ last_call.performance = 20
    /\ distributions[Owner(last_call.param_idx)].ctor.f = "fixed_value"
    /\ distributions[Owner(last_call.param_idx)].last_sample # None

\* C6: the registry has exactly one key per distribution: the registered
\* names are pairwise distinct and every distribution is found under its name.
C6_UniqueNames ==
    /\ Cardinality(DOMAIN distribution_dict) = len(distributions)
    /\ \A d, e \in DOMAIN distributions :
          d # e => distributions[d].name # distributions[e].name
    /\ \A d \in DOMAIN distributions :
          /\ distributions[d].name \in DOMAIN distribution_dict
          /\ distribution_dict[distributions[d].name] = d

\* C7: after an enabled boundary_sample that selected parameter sample_idx,
\* the sample returned for the owning Uniform is that parameter's value.
C7_BoundaryPinning ==
    (/\ last_call.op = "boundary_sample" /\ last_call.status = "ok"
     /\ do_boundary_sample)
        => distributions[Owner(sample_idx)].last_sample = parameters[sample_idx].value

\* C8: with boundary sampling enabled the index selected by boundary_sample,
\* stored in sample_idx and returned, is that of a parameter of positive
\* weight, and no parameter of weight 0 ever has its boundary flag set.
C8_WeightZeroExclusion ==
    /\ \A i \in DOMAIN parameters :
          parameters[i].boundary_sample_flag => parameters[i].boundary_sample_weight > 0
    /\ (last_call.op = "boundary_sample" /\ do_boundary_sample
        /\ last_call.status \in {"selected", "ok"})
          => parameters[sample_idx].boundary_sample_weight > 0
    /\ (last_call.op = "boundary_sample" /\ last_call.status = "ok")
          => last_call.idx = sample_idx

\* a parameter is flagged in an engine that also has a parameter of weight 0
C8_Witness ==
    /\ pc = "boundary_sample"
    /\ do_boundary_sample
    /\ parameters[sample_idx].boundary_sample_flag
    /\ \E j \in DOMAIN parameters : parameters[j].boundary_sample_weight = 0

\* C9: a successful update(performance, param_idx) feeds performance to the
\* parameter at param_idx when it is given (0 included) and to the parameter
\* at sample_idx when it is omitted; every other parameter, sample_idx and
\* the distributions are unchanged.
C9_FeedbackRouting ==
    [][(last_call'.op = "update" /\ last_call'.status = "ok") =>
        LET target == IF last_call'.param_idx = None THEN sample_idx
                      ELSE last_call'.param_idx
        IN  /\ target \in DOMAIN parameters
            /\ DOMAIN parameters' = DOMAIN parameters
            /\ parameters'[target] =
                  Fed(parameters[target], last_call'.performance, p_thresh)
            /\ \A j \in DOMAIN parameters \ {target} : parameters'[j] = parameters[j]
            /\ sample_idx' = sample_idx
            /\ distributions' = distributions]_vars

\* update with param_idx = 0 has grown the queue of parameter 0 while the
\* last boundary sample selected parameter 1
C9_Witness ==
    /\ last_call.op = "update" /\ last_call.status = "ok"
    /\ last_call.param_idx = 0
    /\ sample_idx = 1
    /\ parameters[0].pq # <<>>
    /\ parameters[1].pq = <<>>

\* C10: the bounds of a Uniform built by from_bounds_only or centered_around
\* never cross: phi_l.value <= phi_h.value, for centered_around also
\* low <= phi_l.value <= start <= phi_h.value <= high, and a sample just
\* drawn lies between the two bounds.
C10_BoundsNeverCross ==
    \A d \in DOMAIN distributions :
        LET l == parameters[distributions[d].phi_l].value
            h == parameters[distributions[d].phi_h].value
            c == distributions[d].ctor
        IN  /\ c.f \in {"from_bounds_only", "centered_around"} =>
                 /\ l <= h
                 /\ (last_call.op = "episode_sample"
                     \/ (last_call.op = "boundary_sample" /\ last_call.status = "ok"))
                       => (l <= distributions[d].last_sample
                           /\ distributions[d].last_sample <= h)
            /\ c.f = "centered_around" =>
                 (c.low <= l /\ l <= c.start /\ c.start <= h /\ h <= c.high)

\* both bounds of from_bounds_only(0, 2) have been driven to the midpoint
C10_Witness ==
    \E d \in DOMAIN distributions :
        /\ distributions[d].ctor.f = "from_bounds_only"
        /\ distributions[d].ctor.low < distributions[d].ctor.high
        /\ parameters[distributions[d].phi_l].value = parameters[distributions[d].phi_h].value
        /\ last_call.op = "update"

\* the Uniforms built by centered_around with low < start < high and delta > 0
Centered ==
    {d \in DOMAIN distributions :
        /\ distributions[d].ctor.f = "centered_around"
        /\ distributions[d].ctor.low < distributions[d].ctor.start
        /\ distributions[d].ctor.start < distributions[d].ctor.high
        /\ parameters[distributions[d].phi_h].delta > 0}

\* C11: centered_around yields two parameters valued start, so the total
\* width of an engine of centered (and fixed) Uniforms is 0 while they are at
\* start; a decision on a mean above the high threshold leaves the lower bound
\* below start and the upper bound above start, and with every centered
\* Uniform so expanded the total width is greater than 0.
C11_CenteredConstruction ==
    /\ [](/\ last_call.op = "init" =>
                \A d \in Centered :
                    /\ parameters[distributions[d].phi_l].value = distributions[d].ctor.start
                    /\ parameters[distributions[d].phi_h].value = distributions[d].ctor.start
          /\ (/\ last_call.op = "total_distribution_width"
              /\ Centered # {}
              /\ \A d \in DOMAIN distributions \ Centered :
                    distributions[d].ctor.f = "fixed_value") =>
                /\ (\A d \in Centered :
                       /\ parameters[distributions[d].phi_l].value = distributions[d].ctor.start
                       /\ parameters[distributions[d].phi_h].value = distributions[d].ctor.start)
                     => last_call.total = 0
                /\ (\A d \in Centered :
                       /\ parameters[distributions[d].phi_l].value < distributions[d].ctor.start
                       /\ parameters[distributions[d].phi_h].value > distributions[d].ctor.start)
                     => last_call.total > 0)
    /\ [][(last_call'.op = "update" /\ last_call'.status = "ok") =>
            LET t == IF last_call'.param_idx = None THEN sample_idx
                     ELSE last_call'.param_idx
                q == Append(parameters[t].pq, last_call'.performance)
            IN  (/\ Owner(t) \in Centered
                 /\ Len(q) = parameters[t].pq_size
                 /\ Sum(q) > p_thresh[UPPER] * Len(q)) =>
                    /\ t = distributions[Owner(t)].phi_l =>
                          parameters'[t].value < distributions[Owner(t)].ctor.start
                    /\ t = distributions[Owner(t)].phi_h =>
                          parameters'[t].value > distributions[Owner(t)].ctor.start]_vars

\* the width of an engine whose centered Uniform has expanded on both sides
\* has been computed
C11_Witness ==
    /\ last_call.op = "total_distribution_width"
    /\ last_call.total > 0
    /\ \E d \in Centered :
          /\ parameters[distributions[d].phi_l].value < distributions[d].ctor.start
          /\ parameters[distributions[d].phi_h].value > distributions[d].ctor.start

\* every parameter has weight 0
AllWeightsZero ==
    \A i \in DOMAIN parameters : parameters[i].boundary_sample_weight = 0

\* the parameters whose boundary flag is set
Flagged == {i \in DOMAIN parameters : parameters[i].boundary_sample_flag}

\* C14: with boundary sampling enabled and every weight 0, boundary_sample
\* fails, and the failing call sets no flag and leaves sample_idx, the
\* parameters and the distributions as they were.
C14_DegenerateWeights ==
    /\ []((last_call.op = "boundary_sample" /\ do_boundary_sample /\ AllWeightsZero)
            => last_call.status = "ValueError")
    /\ [][(last_call'.op = "boundary_sample" /\ last_call'.status = "ValueError") =>
            /\ AllWeightsZero /\ do_boundary_sample
            /\ sample_idx' = sample_idx
            /\ parameters' = parameters
            /\ distributions' = distributions
            /\ pc' = "idle"]_vars

\* boundary_sample has failed in an engine whose sample_idx had been set by
\* an earlier, disabled boundary_sample
C14_Witness ==
    /\ last_call.op = "boundary_sample"
    /\ last_call.status = "ValueError"
    /\ sample_idx = 0
    /\ Flagged = {}

\* C16: with do_boundary_sample false, boundary_sample sets sample_idx to 0
\* and returns 0 whatever the weights, sets no flag, and samples every
\* distribution; an update without param_idx that follows feeds parameter 0.
C16_SamplingDisabled ==
    /\ []((last_call.op = "boundary_sample" /\ ~do_boundary_sample) =>
            /\ last_call.status \in {"selected", "ok"}
            /\ sample_idx = 0
            /\ Flagged = {}
            /\ last_call.status = "ok" =>
                  /\ last_call.idx = 0
                  /\ \A d \in DOMAIN distributions :
                        distributions[d].last_sample \in
                            Min(parameters[distributions[d].phi_l].value,
                                parameters[distributions[d].phi_h].value)
                            .. Max(parameters[distributions[d].phi_l].value,
                                   parameters[distributions[d].phi_h].value))
    /\ [][(/\ last_call.op = "boundary_sample" /\ last_call.status = "ok"
           /\ ~do_boundary_sample
           /\ last_call'.op = "update" /\ last_call'.param_idx = None) =>
            /\ last_call'.status = "ok"
            /\ parameters'[0] = Fed(parameters[0], last_call'.performance, p_thresh)
            /\ \A j \in DOMAIN parameters \ {0} : parameters'[j] = parameters[j]]_vars

\* after a disabled boundary_sample in an engine of weight-0 parameters, an
\* update without param_idx has been applied
C16_Witness ==
    /\ last_call.op = "update" /\ last_call.status = "ok"
    /\ last_call.param_idx = None
    /\ ~do_boundary_sample
    /\ sample_idx = 0
    /\ AllWeightsZero
    /\ \A d \in DOMAIN distributions : distributions[d].last_sample # None

\* C17: at most one parameter is flagged at any moment: exactly the selected
\* one between selection and episode sampling of an enabled boundary_sample,
\* none in a disabled one, and none once boundary_sample or episode_sample
\* has returned.
C17_BoundaryFlagHygiene ==
    /\ Cardinality(Flagged) <= 1
    /\ (pc = "boundary_sample" /\ do_boundary_sample) => Flagged = {sample_idx}
    /\ (pc = "boundary_sample" /\ ~do_boundary_sample) => Flagged = {}
    /\ pc = "idle" => Flagged = {}

\* a boundary_sample that pinned an upper bound has returned
C17_Witness ==
    /\ last_call.op = "boundary_sample" /\ last_call.status = "ok"
    /\ do_boundary_sample
    /\ sample_idx % 2 = 1
    /\ Flagged = {}

\* C19: while sample_idx is None, update without param_idx raises and leaves
\* every parameter as it was; update with a valid param_idx can be called and
\* feeds that parameter (it is enabled wherever the fed value stays within
\* MaxDrift).
C19_UpdateBeforeSample ==
    /\ []((sample_idx = None /\ pc = "idle") =>
            \A i \in DOMAIN parameters : \A performance \in PerfVals :
                InRange(update(parameters[i], performance, p_thresh), MaxDrift)
                    => ENABLED Update(performance, i))
    /\ [][(sample_idx = None /\ last_call'.op = "update") =>
            IF last_call'.param_idx = None
            THEN /\ last_call'.status = "TypeError"
                 /\ parameters' = parameters
                 /\ distributions' = distributions
                 /\ sample_idx' = None
            ELSE /\ last_call'.status = "ok"
                 /\ parameters'[last_call'.param_idx] =
                       Fed(parameters[last_call'.param_idx],
                           last_call'.performance, p_thresh)]_vars

\* update without param_idx has failed on an engine that was never sampled
C19_Witness ==
    /\ last_call.op = "update"
    /\ last_call.status = "TypeError"
    /\ last_call.param_idx = None
    /\ sample_idx = None

------------------------------------------------------------------------------
(* An engine of one centered Uniform and one fixed Uniform that is only ever *)
(* told performances above the high threshold                                *)

HighDists ==
    PyList(<<centered_around(-2, 0, 2, 1, 2, 1, "c"), fixed_value(1, "f")>>)

\* the flattened indices of the parameters of the engine
HighParams == DOMAIN FlatParameters(construct_dict(HighDists).distributions)

HighInit ==
    /\ LET c == construct_dict(HighDists) IN
         /\ distribution_dict = c.distribution_dict
         /\ distributions = FlatDistributions(c.distributions)
         /\ parameters = FlatParameters(c.distributions)
    /\ p_thresh = List2(0, 10)
    /\ sample_idx = None
    /\ do_boundary_sample = TRUE
    /\ pc = "idle"
    /\ last_call = [op |-> "init"]

\* ADR.update(performance, param_idx) with a performance above p_thresh[UPPER]
HighUpdate(param_idx) ==
    \E performance \in {p \in PerfVals : p > p_thresh[UPPER]} :
        Update(performance, param_idx)

HighNext ==
    \/ EpisodeSample
    \/ BoundarySelect
    \/ BoundaryReturn
    \/ \E param_idx \in HighParams : HighUpdate(param_idx)

\* every call returns, and each parameter keeps being updated
HighSpec ==
    /\ HighInit
    /\ [][HighNext]_vars
    /\ WF_vars(BoundaryReturn)
    /\ \A param_idx \in HighParams : SF_vars(HighUpdate(param_idx))

\* C18: when both bounds of a centered Uniform keep being told performances
\* above the high threshold, eventually phi_l.value = low and
\* phi_h.value = high, and both stay there.
C18_Saturation ==
    <>[](/\ Centered # {}
         /\ \A d \in Centered :
               /\ parameters[distributions[d].phi_l].value = distributions[d].ctor.low
               /\ parameters[distributions[d].phi_h].value = distributions[d].ctor.high)

\* both bounds are at their limits and an update has just been decided there
C18_Witness ==
    /\ Centered # {}
    /\ \A d \in Centered :
          /\ parameters[distributions[d].phi_l].value = distributions[d].ctor.low
          /\ parameters[distributions[d].phi_h].value = distributions[d].ctor.high
          /\ distributions[d].ctor.low < distributions[d].ctor.start
          /\ parameters[distributions[d].phi_l].pq = <<>>
    /\ last_call.op = "update"
    /\ last_call.performance > p_thresh[UPPER]

------------------------------------------------------------------------------
(* The compound distributions, built over three ADRUniform children and      *)
(* sampled directly: distributions holds the ADRDist objects that exist,      *)
(* the children first.                                                        *)

\* python values that the + of the constructors is applied to
py_list(v) == [t |-> "list", v |-> v]
py_method == [t |-> "method"]

\* a + b
py_add(a, b) ==
    IF a.t = "list" /\ b.t = "list"
    THEN [status |-> "ok",
          v |-> [i \in 0 .. len(a.v) + len(b.v) - 1 |->
                    IF i < len(a.v) THEN a.v[i] ELSE b.v[i - len(a.v)]]]
    ELSE [status |-> "TypeError"]

\* ADRDist.get_parameters() of the object d: the indices of its parameters
get_parameters(d) ==
    IF distributions[d].kind = "ADRUniform"
    THEN PyList(<<distributions[d].phi_l, distributions[d].phi_h>>)
    ELSE distributions[d].parameters

\* ADRAdditiveGaussian.__init__: the statement self.alpha reads an attribute
\* that was never assigned
ADRAdditiveGaussian(x_0, lam_i, lam_j, alpha) ==
    LET self == [kind |-> "ADRAdditiveGaussian", last_sample |-> None,
                 parameters |-> None, name |-> "",
                 x_0 |-> x_0, lam_i |-> lam_i, lam_j |-> lam_j]
        sum == py_add(py_list(get_parameters(lam_i)), py_method)
    IN  IF "alpha" \notin DOMAIN self THEN [status |-> "AttributeError"]
        ELSE IF sum.status # "ok" THEN [status |-> sum.status]
        ELSE [status |-> "ok", self |-> [self EXCEPT !.parameters = PyList(<<sum.v>>)]]

\* ADRUnbiasedAdditiveGaussian.__init__
ADRUnbiasedAdditiveGaussian(x_0, lam_i, alpha) ==
    [status |-> "ok",
     self |-> [kind |-> "ADRUnbiasedAdditiveGaussian", last_sample |-> None,
               parameters |-> get_parameters(lam_i), name |-> "",
               x_0 |-> x_0, lam_i |-> lam_i, alpha |-> alpha]]

\* ADRMultiplicative.__init__: lam_j.get_parameters is the bound method
ADRMultiplicative(x_0, lam_i, lam_j, alpha) ==
    LET sum == py_add(py_list(get_parameters(lam_i)), py_method)
    IN  IF sum.status # "ok" THEN [status |-> sum.status]
        ELSE [status |-> "ok",
              self |-> [kind |-> "ADRMultiplicative", last_sample |-> None,
                        parameters |-> sum.v, name |-> "",
                        x_0 |-> x_0, lam_i |-> lam_i, lam_j |-> lam_j, alpha |-> alpha]]

\* ADRActionNoise.__init__: + is left associative, the first + already fails
ADRActionNoise(a_0, lam_i, lam_j, lam_k) ==
    LET sum == py_add(py_list(get_parameters(lam_i)), py_method)
        sum2 == IF sum.status = "ok" THEN py_add(py_list(sum.v), py_method) ELSE sum
    IN  IF sum2.status # "ok" THEN [status |-> sum2.status]
        ELSE [status |-> "ok",
              self |-> [kind |-> "ADRActionNoise", last_sample |-> None,
                        parameters |-> sum2.v, name |-> "",
                        a_0 |-> a_0, lam_i |-> lam_i, lam_j |-> lam_j, lam_k |-> lam_k]]

CompoundKinds ==
    {"ADRAdditiveGaussian", "ADRUnbiasedAdditiveGaussian", "ADRMultiplicative",
     "ADRActionNoise"}

\* the constructor call of class kind on the children i, j, k; x_0 = a_0 = 0
\* and alpha = 1 (the default 0.01)
Constructed(kind, i, j, k) ==
    CASE kind = "ADRAdditiveGaussian" -> ADRAdditiveGaussian(0, i, j, 1)
      [] kind = "ADRUnbiasedAdditiveGaussian" -> ADRUnbiasedAdditiveGaussian(0, i, 1)
      [] kind = "ADRMultiplicative" -> ADRMultiplicative(0, i, j, 1)
      [] kind = "ADRActionNoise" -> ADRActionNoise(0, i, j, k)

\* the children a compound distribution is built over
Children ==
    PyList(<<from_bounds_only(0, 2, "i"), fixed_value(1, "j"),
             centered_around(0, 1, 2, 1, 1, 1, "k")>>)

CompoundInit ==
    /\ parameters = FlatParameters(Children)
    /\ distributions = FlatDistributions(Children)
    /\ distribution_dict = <<>>
    /\ p_thresh = List2(0, 10)
    /\ sample_idx = None
    /\ do_boundary_sample = TRUE
    /\ pc = "idle"
    /\ last_call = [op |-> "init"]

\* the caller constructs one compound distribution over the children i, j, k
Construct(kind, i, j, k) ==
    /\ \A d \in DOMAIN distributions : distributions[d].kind = "ADRUniform"
    /\ LET r == Constructed(kind, i, j, k) IN
       /\ distributions' = IF r.status = "ok"
                           THEN dict_set(distributions, len(distributions), r.self)
                           ELSE distributions
       /\ last_call' = [op |-> kind, status |-> r.status,
                        lam |-> IF kind = "ADRUnbiasedAdditiveGaussian" THEN <<i>>
                                ELSE IF kind = "ADRActionNoise" THEN <<i, j, k>>
                                ELSE <<i, j>>]
    /\ UNCHANGED <<parameters, distribution_dict, p_thresh, sample_idx,
                   do_boundary_sample, pc>>

\* ADRUniform.episode_sample of the object d in the heap st, the draw being x
SampleUniform(st, d, x) ==
    LET dist == st.distributions[d]
        after == uniform_episode_sample(
                    [dist EXCEPT !.phi_l = st.parameters[dist.phi_l],
                                 !.phi_h = st.parameters[dist.phi_h]], x)
    IN  [distributions |-> [st.distributions EXCEPT ![d].last_sample = after.last_sample],
         parameters |-> [st.parameters EXCEPT ![dist.phi_l] = after.phi_l,
                                              ![dist.phi_h] = after.phi_h]]

\* the draws of np.random.uniform in ADRUniform.episode_sample of d
UniformDraws(st, d) ==
    uniform(st.parameters[st.distributions[d].phi_l].value,
            st.parameters[st.distributions[d].phi_h].value)

\* the draws of np.random.normal the model follows
NormalDraws == {-1, 0, 1}

\* ADRDist.step_sample and ADRActionNoise.step_sample of the object d:
\* ADRActionNoise reads the global a_0, which is not defined, before it
\* reads or samples anything; the other classes inherit ADRDist.step_sample
step_sample_as_episode(d) ==
    IF distributions[d].kind = "ADRUniform"
    THEN [status |-> "ok"]
           @@ SampleUniform([distributions |-> distributions, parameters |-> parameters],
                            d, parameters[distributions[d].phi_l].value)
    ELSE [status |-> "ok",
          distributions |-> [distributions EXCEPT ![d].last_sample = distributions[d].x_0],
          parameters |-> parameters]

step_sample(d) ==
    IF distributions[d].kind = "ADRActionNoise"
    THEN [status |-> "NameError", distributions |-> distributions,
          parameters |-> parameters]
    ELSE [status |-> "NotImplementedError", distributions |-> distributions,
          parameters |-> parameters]

\* episode_sample() called on the object d
DistEpisodeSample(d) ==
    /\ pc = "idle"
    /\ LET dist == distributions[d]
           st == [distributions |-> distributions, parameters |-> parameters]
       IN  CASE dist.kind = "ADRUniform" ->
                  \E x \in UniformDraws(st, d) :
                     LET s1 == SampleUniform(st, d, x) IN
                     /\ distributions' = s1.distributions
                     /\ parameters' = s1.parameters
                     /\ last_call' = [op |-> "ADRDist.episode_sample", d |-> d,
                                      status |-> "ok"]
             [] dist.kind = "ADRUnbiasedAdditiveGaussian" ->
                  \E x \in UniformDraws(st, dist.lam_i), n \in NormalDraws :
                     LET s1 == SampleUniform(st, dist.lam_i, x) IN
                     /\ distributions' =
                           [s1.distributions EXCEPT ![d].last_sample = dist.x_0 + n]
                     /\ parameters' = s1.parameters
                     /\ last_call' = [op |-> "ADRDist.episode_sample", d |-> d,
                                      status |-> "ok"]
             [] dist.kind = "ADRActionNoise" ->
                  \* lam_i and lam_j are sampled, then step_sample raises
                  \E x \in UniformDraws(st, dist.lam_i) :
                     LET s1 == SampleUniform(st, dist.lam_i, x) IN
                     \E y \in UniformDraws(s1, dist.lam_j) :
                        LET s2 == SampleUniform(s1, dist.lam_j, y) IN
                        /\ distributions' = s2.distributions
                        /\ parameters' = s2.parameters
                        /\ last_call' = [op |-> "ADRDist.episode_sample", d |-> d,
                                         status |-> "NameError"]
             [] OTHER -> FALSE
    /\ UNCHANGED <<distribution_dict, p_thresh, sample_idx, do_boundary_sample, pc>>

\* step_sample() called on the object d
DistStepSample(d) ==
    /\ pc = "idle"
    /\ distributions' = step_sample(d).distributions
    /\ parameters' = step_sample(d).parameters
    /\ last_call' = [op |-> "ADRDist.step_sample", d |-> d,
                     status |-> step_sample(d).status]
    /\ UNCHANGED <<distribution_dict, p_thresh, sample_idx, do_boundary_sample, pc>>

\* the caller pins parameter i: set_boundary_sample_flag(True), one at a time
SetBoundarySampleFlag(i) ==
    /\ pc = "idle"
    /\ \A j \in DOMAIN parameters : ~parameters[j].boundary_sample_flag
    /\ parameters' = [parameters EXCEPT ![i] = set_boundary_sample_flag(@, TRUE)]
    /\ last_call' = [op |-> "set_boundary_sample_flag", i |-> i, status |-> "ok"]
    /\ UNCHANGED <<distributions, distribution_dict, p_thresh, sample_idx,
                   do_boundary_sample, pc>>

CompoundNext ==
    \/ \E kind \in CompoundKinds, i, j, k \in DOMAIN Children :
          /\ i # j /\ j # k /\ i # k
          /\ Construct(kind, i, j, k)
    \/ \E d \in DOMAIN distributions : DistEpisodeSample(d)
    \/ \E d \in DOMAIN distributions : DistStepSample(d)
    \/ \E i \in DOMAIN parameters : SetBoundarySampleFlag(i)

CompoundSpec == CompoundInit /\ [][CompoundNext]_vars

------------------------------------------------------------------------------
(* Properties of the compound distributions, checked under CompoundSpec *)

\* the parameters of the children lam, in order
ChildParameters(lam) ==
    [n \in 0 .. 2 * Len(lam) - 1 |->
        IF n % 2 = 0 THEN distributions[lam[n \div 2 + 1]].phi_l
        ELSE distributions[lam[n \div 2 + 1]].phi_h]

\* C12: every constructor call of a compound distribution over Uniform
\* children yields an object whose parameters are the children's parameters
\* in the order lam_i, lam_j, lam_k.
C12_CompoundParameters ==
    last_call.op \in CompoundKinds =>
        /\ last_call.status = "ok"
        /\ distributions[len(distributions) - 1].kind = last_call.op
        /\ distributions[len(distributions) - 1].parameters = ChildParameters(last_call.lam)

\* C13: an ADRActionNoise can be built and sampled: every episode_sample and
\* step_sample on it completes, stores last_sample and has sampled lam_k, and
\* step_sample leaves lam_i.last_sample and lam_j.last_sample unchanged.
C13_ActionNoiseSampling ==
    /\ [](/\ last_call.op = "ADRActionNoise" => last_call.status = "ok"
          /\ (/\ last_call.op \in {"ADRDist.episode_sample", "ADRDist.step_sample"}
              /\ distributions[last_call.d].kind = "ADRActionNoise") =>
                /\ last_call.status = "ok"
                /\ distributions[last_call.d].last_sample # None
                /\ distributions[distributions[last_call.d].lam_k].last_sample # None)
    /\ [][(/\ last_call'.op = "ADRDist.step_sample"
           /\ distributions[last_call'.d].kind = "ADRActionNoise") =>
            /\ distributions'[distributions[last_call'.d].lam_i].last_sample
                 = distributions[distributions[last_call'.d].lam_i].last_sample
            /\ distributions'[distributions[last_call'.d].lam_j].last_sample
                 = distributions[distributions[last_call'.d].lam_j].last_sample]_vars

\* C15: step_sample on an ADRUniform, ADRAdditiveGaussian,
\* ADRUnbiasedAdditiveGaussian or ADRMultiplicative object raises
\* NotImplementedError and changes no last_sample and no parameter.
C15_UnsupportedStepSample ==
    [][(/\ last_call'.op = "ADRDist.step_sample"
        /\ distributions[last_call'.d].kind # "ADRActionNoise") =>
            /\ last_call'.status = "NotImplementedError"
            /\ distributions' = distributions
            /\ parameters' = parameters]_vars

\* step_sample was called on an ADRUnbiasedAdditiveGaussian that had been
\* sampled, while a parameter was pinned
C15_Witness ==
    /\ last_call.op = "ADRDist.step_sample"
    /\ last_call.status = "NotImplementedError"
    /\ distributions[last_call.d].kind = "ADRUnbiasedAdditiveGaussian"
    /\ distributions[last_call.d].last_sample # None
    /\ \E i \in DOMAIN parameters : parameters[i].boundary_sample_flag

====
